---- MODULE Spec2Model ----
(***************************************************************************)
(* Boxer (src/boxer.hpp): a header-only facade that shows a native,        *)
(* blocking, modal message box and reports the button the user pressed.    *)
(*                                                                         *)
(* The model covers the four build configurations of the header (Linux /   *)
(* GTK, Windows with UNICODE, Windows without UNICODE, and a build with    *)
(* neither __linux__ nor a WIN32 macro, where the body of show() is empty  *)
(* and the function flows off its end), the enumeration                    *)
(* mapping functions, the four overloads of show() executed one native     *)
(* call at a time, and the std::to_string lookups.  Values returned by the *)
(* native toolkits (gtk_init_check, gtk_dialog_run, MultiByteToWideChar,   *)
(* MessageBox, the readiness of sources on the default main context) are   *)
(* inputs of the program and are chosen nondeterministically.              *)
(***************************************************************************)
EXTENDS Integers, Sequences, FiniteSets, TLC

(***************************************************************************)
(* Bounds of the model.                                                    *)
(***************************************************************************)
\* how far outside the declared enumerators the enum inputs range
EnumSlack == 1
\* native response codes probed: -MaxCode .. MaxCode
MaxCode == 12
\* events that can be pending on the default main context
MaxPending == 2
\* largest character count MultiByteToWideChar reports
MaxWide == 2

(***************************************************************************)
(* enum class Style / Buttons / Selection (underlying type int).           *)
(***************************************************************************)
Style_Info == 0
Style_Warning == 1
Style_Error == 2
Style_Question == 3

Buttons_OK == 0
Buttons_OKCancel == 1
Buttons_YesNo == 2
Buttons_Quit == 3

Selection_OK == 0
Selection_Cancel == 1
Selection_Yes == 2
Selection_No == 3
Selection_Quit == 4
Selection_None == 5
Selection_Error == 6

StyleValues == {Style_Info, Style_Warning, Style_Error, Style_Question}
ButtonsValues == {Buttons_OK, Buttons_OKCancel, Buttons_YesNo, Buttons_Quit}
SelectionValues == {Selection_OK, Selection_Cancel, Selection_Yes, Selection_No,
                    Selection_Quit, Selection_None, Selection_Error}

\* every int can be cast to the enum: the inputs include out-of-range values
StyleInputs == (Style_Info - EnumSlack)..(Style_Question + EnumSlack)
ButtonsInputs == (Buttons_OK - EnumSlack)..(Buttons_Quit + EnumSlack)
SelectionInputs == (Selection_OK - EnumSlack)..(Selection_Error + EnumSlack)
ResponseInputs == (0 - MaxCode)..MaxCode

(***************************************************************************)
(* Native constants used by the header (values of gtk/gtk.h, Windows.h).   *)
(***************************************************************************)
GTK_MESSAGE_INFO == 0
GTK_MESSAGE_WARNING == 1
GTK_MESSAGE_QUESTION == 2
GTK_MESSAGE_ERROR == 3

GTK_BUTTONS_OK == 1
GTK_BUTTONS_CLOSE == 2
GTK_BUTTONS_YES_NO == 4
GTK_BUTTONS_OK_CANCEL == 5

GTK_RESPONSE_NONE == -1
GTK_RESPONSE_DELETE_EVENT == -4
GTK_RESPONSE_OK == -5
GTK_RESPONSE_CANCEL == -6
GTK_RESPONSE_CLOSE == -7
GTK_RESPONSE_YES == -8
GTK_RESPONSE_NO == -9

MB_OK == 0
MB_OKCANCEL == 1
MB_YESNO == 4
MB_TYPEMASK == 15
MB_ICONERROR == 16
MB_ICONQUESTION == 32
MB_ICONWARNING == 48
MB_ICONINFORMATION == 64
MB_TASKMODAL == 8192

IDOK == 1
IDCANCEL == 2
IDYES == 6
IDNO == 7

(***************************************************************************)
(* Linux mapping functions.                                                *)
(***************************************************************************)
\* the enumerator cast to GtkMessageType instead of the switch
getMessageType_CastEnum(style) ==
    IF style \in Style_Info..Style_Question THEN style ELSE GTK_MESSAGE_INFO

getMessageType(style) ==
    CASE style = Style_Info -> GTK_MESSAGE_INFO
      [] style = Style_Warning -> GTK_MESSAGE_WARNING
      [] style = Style_Error -> GTK_MESSAGE_ERROR
      [] style = Style_Question -> GTK_MESSAGE_QUESTION
      [] OTHER -> GTK_MESSAGE_INFO

getButtonsType_QuitAsOK(buttons) ==
    CASE buttons = Buttons_OKCancel -> GTK_BUTTONS_OK_CANCEL
      [] buttons = Buttons_YesNo -> GTK_BUTTONS_YES_NO
      [] OTHER -> GTK_BUTTONS_OK

getButtonsType(buttons) ==
    CASE buttons = Buttons_OK -> GTK_BUTTONS_OK
      [] buttons = Buttons_OKCancel -> GTK_BUTTONS_OK_CANCEL
      [] buttons = Buttons_YesNo -> GTK_BUTTONS_YES_NO
      [] buttons = Buttons_Quit -> GTK_BUTTONS_CLOSE
      [] OTHER -> GTK_BUTTONS_OK

getSelectionGtk_UnknownIsError(response) ==
    CASE response = GTK_RESPONSE_OK -> Selection_OK
      [] response = GTK_RESPONSE_CANCEL -> Selection_Cancel
      [] response = GTK_RESPONSE_YES -> Selection_Yes
      [] response = GTK_RESPONSE_NO -> Selection_No
      [] response = GTK_RESPONSE_CLOSE -> Selection_Quit
      [] OTHER -> Selection_Error

\* Selection getSelection(gint response)
getSelectionGtk(response) ==
    CASE response = GTK_RESPONSE_OK -> Selection_OK
      [] response = GTK_RESPONSE_CANCEL -> Selection_Cancel
      [] response = GTK_RESPONSE_YES -> Selection_Yes
      [] response = GTK_RESPONSE_NO -> Selection_No
      [] response = GTK_RESPONSE_CLOSE -> Selection_Quit
      [] OTHER -> Selection_None

(***************************************************************************)
(* Windows mapping functions.                                              *)
(***************************************************************************)
\* bool utf8ToUtf16(...): count and written are the values the two calls of
\* MultiByteToWideChar return (the second call is made only when count > 0)
utf8ToUtf16(count, written) ==
    IF count <= 0 THEN FALSE ELSE written > 0

getIcon(style) ==
    CASE style = Style_Info -> MB_ICONINFORMATION
      [] style = Style_Warning -> MB_ICONWARNING
      [] style = Style_Error -> MB_ICONERROR
      [] style = Style_Question -> MB_ICONQUESTION
      [] OTHER -> MB_ICONINFORMATION

getButtons(buttons) ==
    CASE buttons = Buttons_OK \/ buttons = Buttons_Quit -> MB_OK
      [] buttons = Buttons_OKCancel -> MB_OKCANCEL
      [] buttons = Buttons_YesNo -> MB_YESNO
      [] OTHER -> MB_OK

getSelectionWin_NoQuitRemap(response, buttons) ==
    CASE response = IDOK -> Selection_OK
      [] response = IDCANCEL -> Selection_Cancel
      [] response = IDYES -> Selection_Yes
      [] response = IDNO -> Selection_No
      [] OTHER -> Selection_None

\* Selection getSelection(int response, Buttons buttons)
getSelectionWin(response, buttons) ==
    CASE response = IDOK ->
            IF buttons = Buttons_Quit THEN Selection_Quit ELSE Selection_OK
      [] response = IDCANCEL -> Selection_Cancel
      [] response = IDYES -> Selection_Yes
      [] response = IDNO -> Selection_No
      [] OTHER -> Selection_None

\* flags |= ... on UINT
RECURSIVE BitOr(_, _)
BitOr(a, b) ==
    IF a = 0 THEN b
    ELSE IF b = 0 THEN a
    ELSE (IF a % 2 = 1 \/ b % 2 = 1 THEN 1 ELSE 0) + 2 * BitOr(a \div 2, b \div 2)

(***************************************************************************)
(* Defaults of the convenience overloads.                                  *)
(***************************************************************************)
kDefaultStyle_Warning == Style_Warning

kDefaultStyle == Style_Info

kDefaultButtons == Buttons_OK

(***************************************************************************)
(* std::to_string: std::map<enum, const string>::at                        *)
(***************************************************************************)
styleToString ==
    (Style_Info :> "Info") @@ (Style_Warning :> "Warning") @@
    (Style_Error :> "Error") @@ (Style_Question :> "Question")

buttonsToString ==
    (Buttons_OK :> "OK") @@ (Buttons_OKCancel :> "OKCancel") @@
    (Buttons_YesNo :> "YesNo") @@ (Buttons_Quit :> "Quit")

selectionToString ==
    (Selection_OK :> "OK") @@ (Selection_Cancel :> "Cancel") @@
    (Selection_Yes :> "Yes") @@ (Selection_No :> "No") @@
    (Selection_Quit :> "Quit") @@ (Selection_None :> "None") @@
    (Selection_Error :> "Error")

\* map::at: the mapped string, or std::out_of_range when the key is absent
MapAt(map, key) ==
    IF key \in DOMAIN map
    THEN [threw |-> FALSE, value |-> map[key]]
    ELSE [threw |-> TRUE, value |-> "std::out_of_range"]

to_string_Style(style) == MapAt(styleToString, style)

to_string_Buttons(buttons) == MapAt(buttonsToString, buttons)

to_string_Selection(selection) == MapAt(selectionToString, selection)

(***************************************************************************)
(* The native toolkits, as far as show() observes them.                    *)
(***************************************************************************)
Range(seq) == {seq[i] : i \in 1..Len(seq)}

Last(seq) == seq[Len(seq)]

\* the response codes of the buttons gtk_message_dialog_new adds for a
\* GtkButtonsType, primary button first
GtkOffered(buttonsType) ==
    CASE buttonsType = GTK_BUTTONS_OK -> <<GTK_RESPONSE_OK>>
      [] buttonsType = GTK_BUTTONS_CLOSE -> <<GTK_RESPONSE_CLOSE>>
      [] buttonsType = GTK_BUTTONS_YES_NO -> <<GTK_RESPONSE_YES, GTK_RESPONSE_NO>>
      [] buttonsType = GTK_BUTTONS_OK_CANCEL -> <<GTK_RESPONSE_OK, GTK_RESPONSE_CANCEL>>
      [] OTHER -> <<>>

\* what gtk_dialog_run can return: a button of the dialog, the window being
\* closed by the window manager, or the dialog being destroyed while it runs
GtkRunOutcomes(buttonsType) ==
    {[response |-> r, how |-> "button"] : r \in Range(GtkOffered(buttonsType))}
    \cup {[response |-> GTK_RESPONSE_DELETE_EVENT, how |-> "closed"],
          [response |-> GTK_RESPONSE_NONE, how |-> "destroyed"]}

\* the return values of the buttons MessageBox shows for the button bits of
\* its flags, primary button first
WinOffered(flagBits) ==
    CASE flagBits % (MB_TYPEMASK + 1) = MB_OK -> <<IDOK>>
      [] flagBits % (MB_TYPEMASK + 1) = MB_OKCANCEL -> <<IDOK, IDCANCEL>>
      [] flagBits % (MB_TYPEMASK + 1) = MB_YESNO -> <<IDYES, IDNO>>
      [] OTHER -> <<>>

\* what MessageBox can return: a button of the box, or 0 when the function
\* fails and no box was shown
WinRunOutcomes(flagBits) ==
    {[response |-> r, how |-> "button"] : r \in Range(WinOffered(flagBits))}
    \cup {[response |-> 0, how |-> "failed"]}

(***************************************************************************)
(* State.                                                                  *)
(***************************************************************************)
VARIABLES
    platform,    \* build configuration: "linux", "windows_unicode", "windows_ansi"
    pc,          \* position of the thread: "idle", a statement of show(), "returned"
    overload,    \* the overload the caller invoked
    args,        \* the style / buttons arguments the caller passed to it
    message,     \* show(): const char* message
    title,       \* show(): const char* title
    style,       \* show(message, title, style, buttons): style
    buttons,     \* show(message, title, style, buttons): buttons
    live,        \* native windows that exist
    created,     \* native windows this call created
    pending,     \* events pending on the default main context
    busySource,  \* the host attached a source that keeps becoming ready
    flags,       \* Windows: UINT flags
    wideMessage, \* Windows UNICODE: wideMessage.size()
    wideTitle,   \* Windows UNICODE: wideTitle.size()
    dlg,         \* <<arguments the native dialog was created with>>, or <<>>
    response,    \* <<value the native dialog call returned>>, or <<>>
    how,         \* how the native dialog call ended
    early,       \* the step before the native dialog that failed, or "none"
    selection,   \* Linux: <<Selection selection>>, or <<>>
    result,      \* <<value show() returned>>, or <<>>
    log,         \* native calls of the current call of show(), in order
    probe        \* last application of a mapping function outside show()

vars == <<platform, pc, overload, args, message, title, style, buttons, live,
          created, pending, busySource, flags, wideMessage, wideTitle, dlg,
          response, how, early, selection, result, log, probe>>

\* "other": neither __linux__ nor WIN32 / _WIN32 / __WIN32 is defined; the
\* header still compiles, both branches of show() are preprocessed away
Platforms == {"linux", "windows_unicode", "windows_ansi", "other"}

WindowsBuilds == {"windows_unicode", "windows_ansi"}

Texts == {"m", "t"}

NoProbe == [fn |-> "none", in |-> <<>>, out |-> <<>>]

Init ==
    /\ platform \in Platforms
    /\ busySource \in BOOLEAN
    /\ pc = "idle"
    /\ overload = "none"
    /\ args = <<>>
    /\ message = "m"
    /\ title = "t"
    /\ style = Style_Info
    /\ buttons = Buttons_OK
    /\ live = {}
    /\ created = {}
    /\ pending = 0
    /\ flags = 0
    /\ wideMessage = 0
    /\ wideTitle = 0
    /\ dlg = <<>>
    /\ response = <<>>
    /\ how = "none"
    /\ early = "none"
    /\ selection = <<>>
    /\ result = <<>>
    /\ log = <<>>
    /\ probe = NoProbe

(***************************************************************************)
(* Entering show(message, title, style, buttons).                          *)
(***************************************************************************)
Enter(m, t, s, b) ==
    /\ pc \in {"idle", "returned"}
    /\ message' = m
    /\ title' = t
    /\ style' = s
    /\ buttons' = b
    /\ pc' = CASE platform = "linux" -> "gtk_init_check"
                [] platform \in WindowsBuilds -> "flags"
                [] OTHER -> "end_of_body"
    /\ created' = {}
    /\ flags' = 0
    /\ wideMessage' = 0
    /\ wideTitle' = 0
    /\ dlg' = <<>>
    /\ response' = <<>>
    /\ how' = "none"
    /\ early' = "none"
    /\ selection' = <<>>
    /\ result' = <<>>
    /\ log' = <<>>
    /\ probe' = NoProbe
    /\ UNCHANGED <<platform, live, pending, busySource>>

\* Selection show(const char* message, const char* title, Style style, Buttons buttons)
CallShow ==
    \E m \in Texts, t \in Texts, s \in StyleInputs, b \in ButtonsInputs :
        /\ overload' = "show(m,t,style,buttons)"
        /\ args' = <<s, b>>
        /\ Enter(m, t, s, b)

\* inline Selection show(const char* message, const char* title, Style style)
ShowStyle(m, t, s) == Enter(m, t, s, kDefaultButtons)

\* inline Selection show(const char* message, const char* title, Buttons buttons)
ShowButtons(m, t, b) == Enter(m, t, kDefaultStyle, b)

\* inline Selection show(const char* message, const char* title)
ShowPlain(m, t) == Enter(m, t, kDefaultStyle, kDefaultButtons)

CallShowStyle ==
    \E m \in Texts, t \in Texts, s \in StyleInputs :
        /\ overload' = "show(m,t,style)"
        /\ args' = <<s>>
        /\ ShowStyle(m, t, s)

CallShowButtons ==
    \E m \in Texts, t \in Texts, b \in ButtonsInputs :
        /\ overload' = "show(m,t,buttons)"
        /\ args' = <<b>>
        /\ ShowButtons(m, t, b)

CallShowPlain ==
    \E m \in Texts, t \in Texts :
        /\ overload' = "show(m,t)"
        /\ args' = <<>>
        /\ ShowPlain(m, t)

(***************************************************************************)
(* show(), Linux: one action per native call.                              *)
(***************************************************************************)
\* return Selection::Error;
ReturnError ==
    /\ result' = <<Selection_Error>>
    /\ pc' = "returned"

\* the step before the native dialog that the toolkit reported as failed
Failed(ok, step) == IF ok THEN early ELSE step

\* if (!gtk_init_check(0, nullptr)) return Selection::Error;
GtkInitCheck ==
    /\ pc = "gtk_init_check"
    /\ log' = Append(log, "gtk_init_check")
    /\ \E ok \in BOOLEAN :
          /\ early' = Failed(ok, "gtk_init_check")
          /\ IF ~ok
             THEN ReturnError
             ELSE pc' = "gtk_window_new" /\ UNCHANGED result
    /\ UNCHANGED <<platform, overload, args, message, title, style, buttons,
                   live, created, pending, busySource, flags, wideMessage,
                   wideTitle, dlg, response, how, selection, probe>>

\* GtkWidget* parent = gtk_window_new(GTK_WINDOW_TOPLEVEL);
GtkWindowNew ==
    /\ pc = "gtk_window_new"
    /\ live' = live \cup {"parent"}
    /\ created' = created \cup {"parent"}
    /\ log' = Append(log, "gtk_window_new")
    /\ pc' = "gtk_message_dialog_new"
    /\ UNCHANGED <<platform, overload, args, message, title, style, buttons,
                   pending, busySource, flags, wideMessage, wideTitle, dlg,
                   response, how, early, selection, result, probe>>

\* GtkWidget* dialog = gtk_message_dialog_new(GTK_WINDOW(parent), GTK_DIALOG_MODAL,
\*     getMessageType(style), getButtonsType(buttons), "%s", message);
GtkMessageDialogNew ==
    /\ pc = "gtk_message_dialog_new"
    /\ dlg' = <<[parent |-> "parent",
                 type |-> getMessageType(style),
                 buttons |-> getButtonsType(buttons),
                 message |-> message,
                 title |-> <<>>]>>
    /\ live' = live \cup {"dialog"}
    /\ created' = created \cup {"dialog"}
    /\ log' = Append(log, "gtk_message_dialog_new")
    /\ pc' = "gtk_window_set_title"
    /\ UNCHANGED <<platform, overload, args, message, title, style, buttons,
                   pending, busySource, flags, wideMessage, wideTitle,
                   response, how, early, selection, result, probe>>

\* gtk_window_set_title(dialog, title); gtk_window_set_gravity(parent / dialog);
\* gtk_window_set_position(parent / dialog);
GtkConfigure ==
    /\ pc = "gtk_window_set_title"
    /\ dlg' = <<[dlg[1] EXCEPT !.title = <<title>>]>>
    /\ log' = log \o <<"gtk_window_set_title",
                       "gtk_window_set_gravity", "gtk_window_set_gravity",
                       "gtk_window_set_position", "gtk_window_set_position">>
    /\ pc' = "gtk_dialog_run"
    /\ UNCHANGED <<platform, overload, args, message, title, style, buttons,
                   live, created, pending, busySource, flags, wideMessage,
                   wideTitle, response, how, early, selection, result, probe>>

\* Selection selection = getSelection(gtk_dialog_run(GTK_DIALOG(dialog)));
GtkDialogRun ==
    /\ pc = "gtk_dialog_run"
    /\ \E o \in GtkRunOutcomes(dlg[1].buttons) :
          /\ response' = <<o.response>>
          /\ how' = o.how
          /\ selection' = <<getSelectionGtk(o.response)>>
    /\ log' = log \o <<"gtk_dialog_run", "getSelection">>
    /\ pc' = "gtk_widget_destroy(dialog)"
    /\ UNCHANGED <<platform, overload, args, message, title, style, buttons,
                   live, created, pending, busySource, flags, wideMessage,
                   wideTitle, dlg, early, result, probe>>

\* gtk_widget_destroy(widget): the window is gone; the toolkit may queue
\* events (unmap, focus changes) on the default main context
GtkWidgetDestroy(widget, next) ==
    /\ live' = live \ {widget}
    /\ \E n \in 0..(MaxPending - pending) : pending' = pending + n
    /\ log' = Append(log, "gtk_widget_destroy(" \o widget \o ")")
    /\ pc' = next
    /\ UNCHANGED <<platform, overload, args, message, title, style, buttons,
                   created, busySource, flags, wideMessage, wideTitle, dlg,
                   response, how, early, selection, result, probe>>

GtkDestroyDialog_Skipped ==
    /\ pc = "gtk_widget_destroy(dialog)"
    /\ pc' = "gtk_widget_destroy(parent)"
    /\ UNCHANGED <<platform, overload, args, message, title, style, buttons,
                   live, created, pending, busySource, flags, wideMessage,
                   wideTitle, dlg, response, how, early, selection, result,
                   log, probe>>

\* gtk_widget_destroy(GTK_WIDGET(dialog));
GtkDestroyDialog ==
    /\ pc = "gtk_widget_destroy(dialog)"
    /\ GtkWidgetDestroy("dialog", "gtk_widget_destroy(parent)")

\* gtk_widget_destroy(GTK_WIDGET(parent));
GtkDestroyParent ==
    /\ pc = "gtk_widget_destroy(parent)"
    /\ GtkWidgetDestroy("parent", "g_main_context_iteration")

\* while (g_main_context_iteration(nullptr, false));  return selection;
\* one call of g_main_context_iteration: it dispatches a pending event and
\* returns TRUE, or finds none pending and returns FALSE, which ends the loop
GMainContextIteration ==
    /\ pc = "g_main_context_iteration"
    /\ log' = IF Last(log) = "g_main_context_iteration"
              THEN log
              ELSE Append(log, "g_main_context_iteration")
    /\ IF pending > 0
       THEN /\ pending' = pending - 1
            /\ UNCHANGED <<pc, result>>
       ELSE /\ result' = selection
            /\ pc' = "returned"
            /\ UNCHANGED pending
    /\ UNCHANGED <<platform, overload, args, message, title, style, buttons,
                   live, created, busySource, flags, wideMessage, wideTitle,
                   dlg, response, how, early, selection, probe>>

\* a source the host attached to the default main context becomes ready
\* again (an idle callback that keeps itself installed, a zero timeout)
SourceReady ==
    /\ platform = "linux"
    /\ busySource
    /\ pc \notin {"idle", "returned"}
    /\ pending < MaxPending
    /\ pending' = pending + 1
    /\ UNCHANGED <<platform, pc, overload, args, message, title, style,
                   buttons, live, created, busySource, flags, wideMessage,
                   wideTitle, dlg, response, how, early, selection, result,
                   log, probe>>

(***************************************************************************)
(* show(), Windows.                                                        *)
(***************************************************************************)
\* UINT flags = MB_TASKMODAL; flags |= getIcon(style); flags |= getButtons(buttons);
WinFlags ==
    /\ pc = "flags"
    /\ flags' = BitOr(BitOr(MB_TASKMODAL, getIcon(style)), getButtons(buttons))
    /\ pc' = IF platform = "windows_unicode" THEN "utf8ToUtf16(message)"
                                             ELSE "MessageBox"
    /\ UNCHANGED <<platform, overload, args, message, title, style, buttons,
                   live, created, pending, busySource, wideMessage, wideTitle,
                   dlg, response, how, early, selection, result, log, probe>>

\* size of the wstring after utf8ToUtf16: assigned only when count > 0
WideSize(old, count) == IF count <= 0 THEN old ELSE count

\* the values MultiByteToWideChar returns to one call of utf8ToUtf16
MbOutcomes ==
    {[count |-> c, written |-> w] :
        c \in 0..MaxWide, w \in 0..MaxWide} \ 
    {[count |-> c, written |-> w] : c \in {0}, w \in 1..MaxWide}

WinConvertMessage_IgnoreFailure ==
    /\ pc = "utf8ToUtf16(message)"
    /\ \E o \in MbOutcomes :
          /\ wideMessage' = WideSize(wideMessage, o.count)
          /\ early' = Failed(utf8ToUtf16(o.count, o.written), "utf8ToUtf16(message)")
    /\ log' = Append(log, "utf8ToUtf16(message)")
    /\ pc' = "utf8ToUtf16(title)"
    /\ UNCHANGED <<platform, overload, args, message, title, style, buttons,
                   live, created, pending, busySource, flags, wideTitle, dlg,
                   response, how, selection, result, probe>>

\* if (!utf8ToUtf16(message, wideMessage) || ...) return Selection::Error;
WinConvertMessage ==
    /\ pc = "utf8ToUtf16(message)"
    /\ \E o \in MbOutcomes :
          /\ wideMessage' = WideSize(wideMessage, o.count)
          /\ early' = Failed(utf8ToUtf16(o.count, o.written), "utf8ToUtf16(message)")
          /\ IF utf8ToUtf16(o.count, o.written)
             THEN pc' = "utf8ToUtf16(title)" /\ UNCHANGED result
             ELSE ReturnError
    /\ log' = Append(log, "utf8ToUtf16(message)")
    /\ UNCHANGED <<platform, overload, args, message, title, style, buttons,
                   live, created, pending, busySource, flags, wideTitle, dlg,
                   response, how, selection, probe>>

\* if (... || !utf8ToUtf16(title, wideTitle)) return Selection::Error;
WinConvertTitle ==
    /\ pc = "utf8ToUtf16(title)"
    /\ \E o \in MbOutcomes :
          /\ wideTitle' = WideSize(wideTitle, o.count)
          /\ early' = Failed(utf8ToUtf16(o.count, o.written), "utf8ToUtf16(title)")
          /\ IF utf8ToUtf16(o.count, o.written)
             THEN pc' = "MessageBox" /\ UNCHANGED result
             ELSE ReturnError
    /\ log' = Append(log, "utf8ToUtf16(title)")
    /\ UNCHANGED <<platform, overload, args, message, title, style, buttons,
                   live, created, pending, busySource, flags, wideMessage,
                   dlg, response, how, selection, probe>>

\* messageArg / titleArg: wideMessage.c_str() under UNICODE, else the pointer
TextArg(text, wideSize) ==
    IF platform = "windows_unicode"
    THEN [encoding |-> "utf16", text |-> text, size |-> wideSize]
    ELSE [encoding |-> "char", text |-> text, size |-> 0]

\* return getSelection(MessageBox(nullptr, messageArg, titleArg, flags), buttons);
WinMessageBox ==
    /\ pc = "MessageBox"
    /\ dlg' = <<[flags |-> flags,
                 message |-> TextArg(message, wideMessage),
                 title |-> TextArg(title, wideTitle)]>>
    /\ \E o \in WinRunOutcomes(flags) :
          /\ response' = <<o.response>>
          /\ how' = o.how
          /\ result' = <<getSelectionWin(o.response, buttons)>>
    /\ log' = log \o <<"MessageBox", "getSelection">>
    /\ pc' = "returned"
    /\ UNCHANGED <<platform, overload, args, message, title, style, buttons,
                   live, created, pending, busySource, flags, wideMessage,
                   wideTitle, early, selection, probe>>

(***************************************************************************)
(* show(), build with neither __linux__ nor WINDOWS: the body is empty.    *)
(***************************************************************************)
\* what flowing off the end of a function returning Selection can produce:
\* the process dies, or the caller reads an arbitrary int as the Selection
\* (an enumerator or not)
FlowOffOutcomes ==
    {[crashed |-> TRUE, value |-> <<>>]}
    \cup {[crashed |-> FALSE, value |-> <<v>>] : v \in SelectionInputs}

\* { } : control reaches the closing brace of show() without a return
ShowFlowsOffEnd ==
    /\ pc = "end_of_body"
    /\ \E o \in FlowOffOutcomes :
          /\ result' = o.value
          /\ pc' = IF o.crashed THEN "crashed" ELSE "returned"
    /\ UNCHANGED <<platform, overload, args, message, title, style, buttons,
                   live, created, pending, busySource, flags, wideMessage,
                   wideTitle, dlg, response, how, early, selection, log,
                   probe>>

(***************************************************************************)
(* The mapping functions and std::to_string applied on their own.          *)
(***************************************************************************)
Probe(fn, in, out) ==
    /\ probe' = [fn |-> fn, in |-> in, out |-> <<out>>]
    /\ UNCHANGED <<platform, pc, overload, args, message, title, style,
                   buttons, live, created, pending, busySource, flags,
                   wideMessage, wideTitle, dlg, response, how, early,
                   selection, result, log>>

ProbeGetMessageType ==
    /\ pc = "idle"
    /\ platform = "linux"
    /\ \E s \in StyleInputs : Probe("getMessageType", <<s>>, getMessageType(s))

ProbeGetButtonsType ==
    /\ pc = "idle"
    /\ platform = "linux"
    /\ \E b \in ButtonsInputs : Probe("getButtonsType", <<b>>, getButtonsType(b))

ProbeGetSelectionGtk ==
    /\ pc = "idle"
    /\ platform = "linux"
    /\ \E r \in ResponseInputs : Probe("getSelection", <<r>>, getSelectionGtk(r))

ProbeGetIcon ==
    /\ pc = "idle"
    /\ platform \in WindowsBuilds
    /\ \E s \in StyleInputs : Probe("getIcon", <<s>>, getIcon(s))

ProbeGetButtons ==
    /\ pc = "idle"
    /\ platform \in WindowsBuilds
    /\ \E b \in ButtonsInputs : Probe("getButtons", <<b>>, getButtons(b))

ProbeGetSelectionWin ==
    /\ pc = "idle"
    /\ platform \in WindowsBuilds
    /\ \E r \in ResponseInputs, b \in ButtonsInputs :
          Probe("getSelection", <<r, b>>, getSelectionWin(r, b))

ProbeToStringStyle ==
    /\ pc = "idle"
    /\ \E s \in StyleInputs :
          Probe("to_string(Style)", <<s>>, to_string_Style(s))

ProbeToStringButtons ==
    /\ pc = "idle"
    /\ \E b \in ButtonsInputs :
          Probe("to_string(Buttons)", <<b>>, to_string_Buttons(b))

ProbeToStringSelection ==
    /\ pc = "idle"
    /\ \E s \in SelectionInputs :
          Probe("to_string(Selection)", <<s>>, to_string_Selection(s))

(***************************************************************************)
(* Specifications.                                                         *)
(***************************************************************************)
\* the statements of show() after it was entered
ShowStep ==
    \/ GtkInitCheck
    \/ GtkWindowNew
    \/ GtkMessageDialogNew
    \/ GtkConfigure
    \/ GtkDialogRun
    \/ GtkDestroyDialog
    \/ GtkDestroyParent
    \/ GMainContextIteration
    \/ WinFlags
    \/ WinConvertMessage
    \/ WinConvertTitle
    \/ WinMessageBox
    \/ ShowFlowsOffEnd

Next ==
    \/ CallShow
    \/ CallShowStyle
    \/ CallShowButtons
    \/ CallShowPlain
    \/ ShowStep
    \/ SourceReady
    \/ ProbeGetMessageType
    \/ ProbeGetButtonsType
    \/ ProbeGetSelectionGtk
    \/ ProbeGetIcon
    \/ ProbeGetButtons
    \/ ProbeGetSelectionWin
    \/ ProbeToStringStyle
    \/ ProbeToStringButtons
    \/ ProbeToStringSelection

Spec == Init /\ [][Next]_vars

\* the calling thread keeps running: a statement of show() that can execute
\* eventually does
FairSpec == Init /\ [][Next]_vars /\ WF_vars(ShowStep)

(***************************************************************************)
(* Properties.                                                             *)
(***************************************************************************)
OnLinux == platform = "linux"

OnWindows == platform \in WindowsBuilds

Returned == pc = "returned"

\* the calls that create or show a native window
NativeDialogCalls ==
    {"gtk_window_new", "gtk_message_dialog_new", "gtk_dialog_run", "MessageBox"}

\* the Selection the platform's response mapping gives for a native response
\* when the request was b
Translate(r, b) ==
    IF OnLinux THEN getSelectionGtk(r) ELSE getSelectionWin(r, b)

\* C1: when a step that precedes the native dialog fails (gtk_init_check
\* returns false; utf8ToUtf16 fails for the message or the title), show
\* returns Selection::Error at once and no native window or dialog is
\* created, run or shown, for every Style and Buttons value.
C1_EarlyFailureReturnsError ==
    early # "none" =>
        /\ Returned
        /\ result = <<Selection_Error>>
        /\ created = {}
        /\ dlg = <<>>
        /\ response = <<>>
        /\ Range(log) \cap NativeDialogCalls = {}

C1_Witness ==
    /\ Returned
    /\ platform = "windows_unicode"
    /\ early = "utf8ToUtf16(title)"
    /\ style = Style_Question
    /\ buttons = Buttons_YesNo
    /\ result = <<Selection_Error>>

\* C2: on Linux and on Windows every call of show either displayed the
\* dialog and returns the translation of the user's response, or returns
\* Selection::Error; in
\* particular a native dialog call that reports failure (MessageBox
\* returning 0) never yields a value other than Selection::Error.
C2_DisplayedOrError ==
    (Returned /\ (OnLinux \/ OnWindows)) =>
        \/ result = <<Selection_Error>>
        \/ /\ how \in {"button", "closed", "destroyed"}
           /\ result = <<Translate(response[1], buttons)>>

\* C3: once the user has dismissed the dialog, or a step before it has
\* failed, show eventually returns, whatever sources are attached to the
\* default main context.
C3_ShowEventuallyReturns ==
    (how # "none" \/ early # "none") ~> Returned

\* the documented response tables
GtkResponseTable ==
    (GTK_RESPONSE_OK :> Selection_OK) @@ (GTK_RESPONSE_CANCEL :> Selection_Cancel) @@
    (GTK_RESPONSE_YES :> Selection_Yes) @@ (GTK_RESPONSE_NO :> Selection_No) @@
    (GTK_RESPONSE_CLOSE :> Selection_Quit)

WinResponseTable ==
    (IDOK :> {Selection_OK, Selection_Quit}) @@ (IDCANCEL :> {Selection_Cancel}) @@
    (IDYES :> {Selection_Yes}) @@ (IDNO :> {Selection_No})

\* C4: the response mapping is total on native response codes: every
\* recognized code maps to its documented Selection, every other integer maps
\* to Selection::None, and the mapping never yields Selection::Error.
C4_ResponseMappingTotal ==
    probe.fn = "getSelection" =>
        /\ probe.out[1] \in SelectionValues \ {Selection_Error}
        /\ OnLinux =>
              probe.out[1] = IF probe.in[1] \in DOMAIN GtkResponseTable
                             THEN GtkResponseTable[probe.in[1]]
                             ELSE Selection_None
        /\ OnWindows =>
              IF probe.in[1] \in DOMAIN WinResponseTable
              THEN probe.out[1] \in WinResponseTable[probe.in[1]]
              ELSE probe.out[1] = Selection_None

C4_Witness ==
    /\ OnLinux
    /\ probe.fn = "getSelection"
    /\ probe.in = <<GTK_RESPONSE_DELETE_EVENT>>
    /\ probe.out = <<Selection_None>>

\* C5: on Windows Buttons::Quit is requested with MB_OK like Buttons::OK, the
\* IDOK response is Selection::Quit exactly when the request was
\* Buttons::Quit and Selection::OK otherwise; show with Buttons::Quit never
\* returns Selection::OK and show with other buttons never returns
\* Selection::Quit.
C5_WindowsQuitRemap ==
    OnWindows =>
        /\ (probe.fn = "getButtons" /\ probe.in[1] \in {Buttons_OK, Buttons_Quit})
              => probe.out[1] = MB_OK
        /\ (probe.fn = "getSelection" /\ probe.in[1] = IDOK)
              => probe.out[1] = IF probe.in[2] = Buttons_Quit
                                THEN Selection_Quit
                                ELSE Selection_OK
        /\ (Returned /\ buttons = Buttons_Quit) => result # <<Selection_OK>>
        /\ (Returned /\ buttons # Buttons_Quit) => result # <<Selection_Quit>>
        /\ (dlg # <<>> /\ buttons = Buttons_Quit)
              => dlg[1].flags % (MB_TYPEMASK + 1) = MB_OK

C5_Witness ==
    /\ OnWindows
    /\ Returned
    /\ buttons = Buttons_Quit
    /\ response = <<IDOK>>
    /\ result = <<Selection_Quit>>

\* the style and buttons the four-argument show must receive: the caller's
\* arguments, Style::Info and Buttons::OK where the overload omits them
ExpectedStyle ==
    IF overload \in {"show(m,t,style,buttons)", "show(m,t,style)"}
    THEN args[1]
    ELSE Style_Info

ExpectedButtons ==
    CASE overload = "show(m,t,style,buttons)" -> args[2]
      [] overload = "show(m,t,buttons)" -> args[1]
      [] OTHER -> Buttons_OK

\* C6: each convenience overload behaves as the four-argument show with
\* Style::Info and / or Buttons::OK filled in: it passes the same style and
\* buttons on (never swapped), creates the native dialog with the same
\* arguments and returns the same Selection for the same native outcome.
C6_OverloadDefaults ==
    overload # "none" =>
        /\ style = ExpectedStyle
        /\ buttons = ExpectedButtons
        /\ (dlg # <<>> /\ OnLinux) =>
              /\ dlg[1].type = getMessageType(ExpectedStyle)
              /\ dlg[1].buttons = getButtonsType(ExpectedButtons)
              /\ dlg[1].message = message
        /\ (dlg # <<>> /\ OnWindows) =>
              /\ dlg[1].flags =
                    MB_TASKMODAL + getIcon(ExpectedStyle) + getButtons(ExpectedButtons)
              /\ dlg[1].message.text = message
              /\ dlg[1].title.text = title
        /\ (Returned /\ response # <<>>) =>
              result = <<Translate(response[1], ExpectedButtons)>>

C6_Witness ==
    /\ Returned
    /\ overload = "show(m,t,buttons)"
    /\ args = <<Buttons_YesNo>>
    /\ style = Style_Info
    /\ result = <<Selection_No>>

\* the documented icon tables
GtkIconTable ==
    (Style_Info :> GTK_MESSAGE_INFO) @@ (Style_Warning :> GTK_MESSAGE_WARNING) @@
    (Style_Error :> GTK_MESSAGE_ERROR) @@ (Style_Question :> GTK_MESSAGE_QUESTION)

WinIconTable ==
    (Style_Info :> MB_ICONINFORMATION) @@ (Style_Warning :> MB_ICONWARNING) @@
    (Style_Error :> MB_ICONERROR) @@ (Style_Question :> MB_ICONQUESTION)

\* C7: the icon mapping is total and injective on the four Style values on
\* each platform, with the documented constants, and an out-of-range Style
\* maps to the constant of Style::Info.
C7_IconMapping ==
    /\ probe.fn = "getMessageType" =>
          probe.out[1] = IF probe.in[1] \in StyleValues
                         THEN GtkIconTable[probe.in[1]]
                         ELSE GtkIconTable[Style_Info]
    /\ probe.fn = "getIcon" =>
          probe.out[1] = IF probe.in[1] \in StyleValues
                         THEN WinIconTable[probe.in[1]]
                         ELSE WinIconTable[Style_Info]
    /\ \A s1 \in StyleValues, s2 \in StyleValues :
          s1 # s2 => /\ getMessageType(s1) # getMessageType(s2)
                     /\ getIcon(s1) # getIcon(s2)

C7_Witness ==
    /\ probe.fn = "getMessageType"
    /\ probe.in = <<Style_Question + 1>>
    /\ probe.out = <<GTK_MESSAGE_INFO>>

\* the documented names, in enumerator order
StyleNames == <<"Info", "Warning", "Error", "Question">>

ButtonsNames == <<"OK", "OKCancel", "YesNo", "Quit">>

SelectionNames == <<"OK", "Cancel", "Yes", "No", "Quit", "None", "Error">>

\* the outcome to_string must have for value v of an enumeration with these names
Named(names, v) ==
    IF v \in 0..(Len(names) - 1)
    THEN [threw |-> FALSE, value |-> names[v + 1]]
    ELSE [threw |-> TRUE, value |-> "std::out_of_range"]

\* to_string applied to a value gives the documented literal name of the
\* enumerator, or std::out_of_range when the value is no enumerator
ToStringTables ==
    /\ probe.fn = "to_string(Style)" =>
          probe.out[1] = Named(StyleNames, probe.in[1])
    /\ probe.fn = "to_string(Buttons)" =>
          probe.out[1] = Named(ButtonsNames, probe.in[1])
    /\ probe.fn = "to_string(Selection)" =>
          probe.out[1] = Named(SelectionNames, probe.in[1])

\* C8: to_string returns the documented literal name for every enumerator of
\* Style, Buttons and Selection, fails with std::out_of_range for any other
\* value, and every Selection show returns has a name.
C8_ToString ==
    /\ ToStringTables
    /\ Returned =>
          /\ ~to_string_Selection(result[1]).threw
          /\ to_string_Selection(result[1]).value \in Range(SelectionNames)

\* the native calls of a Linux call of show that passes initialization
LinuxCalls ==
    <<"gtk_init_check", "gtk_window_new", "gtk_message_dialog_new",
      "gtk_window_set_title", "gtk_window_set_gravity", "gtk_window_set_gravity",
      "gtk_window_set_position", "gtk_window_set_position",
      "gtk_dialog_run", "getSelection",
      "gtk_widget_destroy(dialog)", "gtk_widget_destroy(parent)",
      "g_main_context_iteration">>

IsPrefix(s, t) == Len(s) <= Len(t) /\ s = SubSeq(t, 1, Len(s))

\* C9: on Linux the native calls occur in the order create parent, create
\* dialog, run, translate, destroy dialog, destroy parent, drain, return; when
\* show returns every widget it created is destroyed (the dialog before the
\* parent) and the result is the Selection computed from the response before
\* the destruction; on the Error path no widget was created; so every call
\* starts with no native window left over from an earlier one.
C9_LinuxLifecycle ==
    OnLinux =>
        /\ IsPrefix(log, LinuxCalls)
        /\ (Returned /\ early = "none") =>
              /\ log = LinuxCalls
              /\ created = {"parent", "dialog"}
              /\ live = {}
              /\ pending = 0
              /\ result = selection
              /\ result = <<getSelectionGtk(response[1])>>
        /\ (Returned /\ early # "none") =>
              /\ log = <<"gtk_init_check">>
              /\ created = {}
              /\ live = {}
        /\ ("parent" \in created /\ "parent" \notin live) => "dialog" \notin live
        /\ ("dialog" \in created /\ "dialog" \notin live) => selection # <<>>
        /\ pc \in {"idle", "returned", "gtk_init_check"} => live = {}
        /\ live \subseteq created

C9_Witness ==
    /\ OnLinux
    /\ Returned
    /\ early = "none"
    /\ how = "closed"
    /\ log = LinuxCalls
    /\ live = {}

\* the Selections naming the buttons of each Buttons value, primary first
ExpectedSelections(b) ==
    CASE b = Buttons_OK -> <<Selection_OK>>
      [] b = Buttons_OKCancel -> <<Selection_OK, Selection_Cancel>>
      [] b = Buttons_YesNo -> <<Selection_Yes, Selection_No>>
      [] b = Buttons_Quit -> <<Selection_Quit>>

\* the Selections show yields for the buttons of the native dialog made for b
GtkButtonSelections(b) ==
    [i \in 1..Len(GtkOffered(getButtonsType(b))) |->
        getSelectionGtk(GtkOffered(getButtonsType(b))[i])]

WinButtonSelections(b) ==
    [i \in 1..Len(WinOffered(getButtons(b))) |->
        getSelectionWin(WinOffered(getButtons(b))[i], b)]

\* C10: for every Buttons value, pressing a button the native dialog offers
\* yields the Selection naming it and only those (OK -> {OK}, OKCancel ->
\* {OK, Cancel}, YesNo -> {Yes, No}, Quit -> {Quit}), the same on Linux and
\* Windows for the same button, and never Selection::None or Selection::Error.
C10_ButtonsRoundTrip ==
    /\ \A b \in ButtonsValues :
          /\ GtkButtonSelections(b) = ExpectedSelections(b)
          /\ WinButtonSelections(b) = ExpectedSelections(b)
    /\ (Returned /\ how = "button" /\ buttons \in ButtonsValues) =>
          /\ result[1] \in Range(ExpectedSelections(buttons))
          /\ result[1] \notin {Selection_None, Selection_Error}

C10_Witness ==
    /\ OnLinux
    /\ Returned
    /\ how = "button"
    /\ buttons = Buttons_Quit
    /\ response = <<GTK_RESPONSE_CLOSE>>
    /\ result = <<Selection_Quit>>

====
